---- MODULE Spec2Model ----
(***************************************************************************)
(* Particle choreography engine of treetree.                               *)
(*                                                                         *)
(* Two implementations live in the repository and both are modelled:       *)
(*   - App (src/geometryService.ts, lines 95-699): the process-wide STATE  *)
(*     object, the Particle registry, processGestures and animate.         *)
(*   - the component pipeline: HandTracker.detect                          *)
(*     (src/components/HandTracker.tsx), TreeScene and processPhotos       *)
(*     (src/unnamed/part_000, src/geometryService.ts lines 1-94).          *)
(*                                                                         *)
(* Units.  Landmark coordinates are hundredths of the normalized image     *)
(* (0.05 is 5, 0.25 is 25).  Scales are thousandths (0.8 is 800).  Lerp    *)
(* rates are tenths (2.0 is 20).                                           *)
(***************************************************************************)
EXTENDS Integers, Sequences, FiniteSets, TLC

VARIABLES
    mode,            \* STATE.mode
    focusTarget,     \* STATE.focusTarget: 0 is null, else the mesh of particleSystem[focusTarget]
    hand,            \* STATE.hand: [detected, x, y]
    rotation,        \* STATE.rotation, by the rule that last drove it
    particleSystem,  \* particleSystem: Particle[]
    handLandmarker,  \* handLandmarker is set
    addPhotoRef,     \* addPhotoRef.current is addPhotoToScene (TRUE) or null (FALSE)
    initPc,          \* where init() stands
    predictLoop,     \* the predictWebcam frame loop
    animLoop,        \* the animate frame loop is scheduled
    frameFresh,      \* videoRef.current.currentTime !== lastVideoTime
    result,          \* the detection result last handed to processGestures
    raised,          \* a TypeError escaped processGestures
    played,          \* gestures of the present samples so far, while they follow Scenario
    modesSeen,       \* STATE.mode after each sample of played
    recording,       \* the samples so far have followed Scenario
    tickSaw,         \* the STATE.mode and STATE.focusTarget the last animate passed to update
    before,          \* STATE.mode and STATE.focusTarget when the last sample came in
    cleaned,         \* the cleanup of the App's effect has run
    \* the component pipeline
    trackerInput,    \* HandTracker: the detection result detect last read
    handUpdates,     \* HandTracker: the HandState last given to onHandUpdate, if any
    detectLoop,      \* HandTracker: the detect frame loop
    trackerPc,       \* HandTracker: loading the landmarker, loaded, or unmounted
    videoReady,      \* HandTracker: webcamRef.current.video.readyState === 4
    sceneMode,       \* TreeScene: the mode prop
    photoUrls,       \* TreeScene: the number of urls in the photoUrls prop
    photos,          \* TreeScene: the memoized processPhotos(photoUrls)
    focusedPhotoId,  \* TreeScene: focusedPhotoId as last rendered, 0 is null, i + 1 is `photo-i`
    focusQueued,     \* TreeScene: the setFocusedPhotoId update not yet rendered, if any
    effectDue,       \* TreeScene: the focus effect of the last render has yet to run
    frameSaw,        \* PhotoPlane: the props the last useFrame callback read
    \* the formation generator called on its own
    geoCall,         \* the function last called and its arguments
    geoResult        \* what it returned

appVars == <<mode, focusTarget, hand, rotation, particleSystem, handLandmarker,
             addPhotoRef, initPc, predictLoop, animLoop, frameFresh, result,
             raised, played, modesSeen, recording, tickSaw, before, cleaned>>

trackerVars == <<trackerInput, handUpdates, detectLoop, trackerPc, videoReady>>

treeVars == <<sceneMode, photoUrls, photos, focusedPhotoId, focusQueued,
              effectDue, frameSaw>>

sceneVars == <<trackerVars, treeVars>>

geoVars == <<geoCall, geoResult>>

vars == <<appVars, sceneVars, geoVars>>

(***************************************************************************)
(* Bounds of the model.                                                    *)
(***************************************************************************)
\* ornaments made by createParticles (CONFIG.particles.count, scaled down)
OrnamentCount == 1
\* dust particles made by createDust (CONFIG.particles.dustCount, scaled down)
DustCount == 1
\* PHOTO particles the registry may hold (the default photo and the uploads)
MaxPhotos == 2
\* urls the photoUrls prop of TreeScene may hold
MaxUrls == 3

(***************************************************************************)
(* Program constants.                                                      *)
(***************************************************************************)
PinchThreshold == 5
FistThreshold == 25
OpenThreshold == 40
FocusScale == 4500
PhotoScale == 800
TrackerPinch == 5
TrackerFist == 25
TrackerOpen == 35
ParticleCount == 450
TreeHeight == 14
TreeRadius == 5

NULL == 0

Scenario == <<"PINCH", "FIST", "OPEN_PALM", "UNKNOWN">>

(***************************************************************************)
(* Landmark samples.  A hand is the sequence of its landmark points; the   *)
(* landmark the code writes lm[i] is element i + 1.                        *)
(***************************************************************************)
Pt(x, y) == [x |-> x, y |-> y]

Has(lm, i) == i + 1 <= Len(lm)

Lm(lm, i) == lm[i + 1]

\* A hand of n points: wrist at (50, 90), the index tip dIdx above it, the
\* other three finger tips dRest above it, the thumb tip (gx, gy) away from
\* the index tip, landmark 9 at (px, 60).
HandOf(n, gx, gy, dIdx, dRest, px) ==
    [k \in 1..n |->
        CASE k - 1 = 0 -> Pt(50, 90)
          [] k - 1 = 4 -> Pt(50 + gx, 90 - dIdx + gy)
          [] k - 1 = 8 -> Pt(50, 90 - dIdx)
          [] k - 1 = 9 -> Pt(px, 60)
          [] k - 1 \in {12, 16, 20} -> Pt(50, 90 - dRest)
          [] OTHER -> Pt(50, 80)]

\* <<n, gx, gy, dIdx, dRest, px>> of the hands sampled
Shapes ==
    << <<21, 1, 0, 20, 20, 50>>,   \* pinch 0.01, spread 0.20
       <<21, 3, 3, 50, 50, 50>>,   \* pinch 0.042, spread 0.50
       <<21, 3, 4, 20, 20, 50>>,   \* pinch 0.05 (not below), spread 0.20
       <<21, 5, 0, 24, 25, 50>>,   \* spread 0.2475
       <<21, 5, 0, 25, 25, 50>>,   \* spread 0.25
       <<21, 5, 0, 30, 30, 50>>,   \* spread 0.30
       <<21, 5, 0, 30, 30, 25>>,   \* spread 0.30, the palm to the left
       <<21, 5, 0, 35, 35, 50>>,   \* spread 0.35
       <<21, 5, 0, 36, 35, 50>>,   \* spread 0.3525
       <<21, 5, 0, 40, 40, 50>>,   \* spread 0.40
       <<21, 5, 0, 41, 40, 50>>,   \* spread 0.4025
       <<21, 5, 0, 50, 50, 50>>,   \* spread 0.50
       <<5, 5, 0, 30, 30, 50>>,    \* short: landmarks 0..4
       <<12, 5, 0, 30, 30, 50>>,   \* short: landmarks 0..11
       <<20, 5, 0, 30, 30, 50>> >> \* short: landmarks 0..19

NoHand == << >>

\* the detection results sampled: result.landmarks, no hand first
Samples ==
    <<NoHand>> \o
    [ k \in 1..Len(Shapes) |->
        << HandOf(Shapes[k][1], Shapes[k][2], Shapes[k][3], Shapes[k][4],
                  Shapes[k][5], Shapes[k][6]) >> ]

\* a detection result is named by its place in Samples
Results == 1..Len(Samples)

Abs(n) == IF n < 0 THEN -n ELSE n

\* Math.hypot of an integer offset, rounded down to a whole number of
\* hundredths: exact whenever the distance is whole, and h < t holds exactly
\* when dx^2 + dy^2 < t^2.
Hypot(dx, dy) ==
    IF dx = 0 THEN Abs(dy)
    ELSE IF dy = 0 THEN Abs(dx)
    ELSE CHOOSE r \in 0..(Abs(dx) + Abs(dy)) :
             /\ r * r <= dx * dx + dy * dy
             /\ (r + 1) * (r + 1) > dx * dx + dy * dy

PinchDist(lm) ==
    Hypot(Lm(lm, 4).x - Lm(lm, 8).x, Lm(lm, 4).y - Lm(lm, 8).y)

\* the sum the code divides by 4: four times avgDist
TipSum(lm) ==
    LET d(i) == Hypot(Lm(lm, i).x - Lm(lm, 0).x, Lm(lm, i).y - Lm(lm, 0).y)
    IN  d(8) + d(12) + d(16) + d(20)

\* processGestures reads lm[9], lm[4], lm[8], lm[0], lm[12], lm[16], lm[20];
\* reading a field of a missing landmark throws a TypeError
Readable(lm) == \A i \in {0, 4, 8, 9, 12, 16, 20} : Has(lm, i)

\* the branch of processGestures taken for a readable hand
GestureOf(lm) ==
    IF PinchDist(lm) < PinchThreshold THEN "PINCH"
    ELSE IF TipSum(lm) < 4 * FistThreshold THEN "FIST"
    ELSE IF TipSum(lm) > 4 * OpenThreshold THEN "OPEN_PALM"
    ELSE "UNKNOWN"

(***************************************************************************)
(* The Particle registry.                                                  *)
(***************************************************************************)
\* new Particle(mesh, type, isDust): calculatePositions runs once, in the
\* constructor; the two random targets are tokens owned by the particle
\* made k-th.
NewParticle(k, type, isDust, scale) ==
    [ type |-> type, isDust |-> isDust, baseScale |-> scale,
      posTree |-> <<"tree", k>>, posScatter |-> <<"scatter", k>>,
      target |-> <<"origin", k>>, lerpSpeed |-> 0, rot |-> "none",
      lookAt |-> FALSE, scaleTarget |-> scale ]

PhotoIndices(ps) == { i \in 1..Len(ps) : ps[i].type = "PHOTO" }

\* an addPhotoToScene that keeps one photo slot: a photo already there is
\* replaced by the new one
AddPhotoReplaces(ps) ==
    IF PhotoIndices(ps) = {}
    THEN Append(ps, NewParticle(Len(ps) + 1, "PHOTO", FALSE, PhotoScale))
    ELSE [ps EXCEPT ![Len(ps)] = NewParticle(Len(ps) + 1, "PHOTO", FALSE,
                                             PhotoScale)]

\* addPhotoToScene: push one PHOTO particle
AddPhotoTo(ps) == Append(ps, NewParticle(Len(ps) + 1, "PHOTO", FALSE, PhotoScale))

\* createParticles and createDust: the ornaments, then the dust
Ornaments ==
    LET orn  == [k \in 1..OrnamentCount |-> NewParticle(k, "BOX", FALSE, 500)]
        dust == [k \in 1..DustCount |->
                    NewParticle(OrnamentCount + k, "DUST", TRUE, 1000)]
    IN  orn \o dust

\* an init() that makes no default photo
InitialRegistryNoPhoto == Ornaments

\* createParticles, createDust, createDefaultPhotos
InitialRegistry == AddPhotoTo(Ornaments)

\* a position target chosen without the else of the FOCUS branch: a particle
\* that is not the focus target keeps the tree position
PositionTargetNoFocusElse(p, mesh, m, focusTargetMesh) ==
    IF m = "SCATTER" THEN p.posScatter
    ELSE IF m = "FOCUS" /\ mesh = focusTargetMesh THEN <<"camera", 0>>
    ELSE p.posTree

\* a position target that zooms every photo while a photo is focused
PositionTargetEveryPhoto(p, mesh, m, focusTargetMesh) ==
    IF m = "SCATTER" THEN p.posScatter
    ELSE IF m = "FOCUS"
         THEN (IF focusTargetMesh # NULL /\ p.type = "PHOTO"
               THEN <<"camera", 0>> ELSE p.posScatter)
         ELSE p.posTree

\* Particle.update, the position target: posTree, posScatter, or the place in
\* front of the camera for the focus target
PositionTarget(p, mesh, m, focusTargetMesh) ==
    IF m = "SCATTER" THEN p.posScatter
    ELSE IF m = "FOCUS"
         THEN (IF mesh = focusTargetMesh THEN <<"camera", 0>>
               ELSE p.posScatter)
         ELSE p.posTree

\* a rotation that goes on spinning in FOCUS
RotationLogicSpinsInFocus(m) ==
    IF m = "TREE" THEN "decay" ELSE "spin"

\* Particle.update, the rotation: "spin" adds spinSpeed * dt on every axis,
\* "decay" lerps x and z to zero and turns y, "none" leaves the rotation
RotationLogic(m) ==
    IF m = "SCATTER" THEN "spin"
    ELSE IF m = "TREE" THEN "decay" ELSE "none"

\* a scale in which dust is shrunk in FOCUS as the other particles are
ScaleLogicDustShrinks(p, mesh, m, focusTargetMesh, sin) ==
    IF m = "FOCUS" /\ mesh # focusTargetMesh THEN (p.baseScale * 8) \div 10
    ELSE IF p.isDust
    THEN (IF m = "TREE" THEN 0
          ELSE (p.baseScale * (80 + 4 * sin)) \div 100)
    ELSE IF m = "SCATTER" /\ p.type = "PHOTO"
         THEN (p.baseScale * 25) \div 10
         ELSE IF m = "FOCUS" THEN FocusScale ELSE p.baseScale

\* Particle.update, the scale target s
ScaleLogic(p, mesh, m, focusTargetMesh, sin) ==
    IF p.isDust
    THEN (IF m = "TREE" THEN 0
          ELSE (p.baseScale * (80 + 4 * sin)) \div 100)
    ELSE IF m = "SCATTER" /\ p.type = "PHOTO"
         THEN (p.baseScale * 25) \div 10
         ELSE IF m = "FOCUS"
              THEN (IF mesh = focusTargetMesh THEN FocusScale
                    ELSE (p.baseScale * 8) \div 10)
              ELSE p.baseScale

\* Particle.update: what one tick does to the particle whose mesh is `mesh`.
\* sin is ten times Math.sin(clock.elapsedTime * 4 + mesh.id).
Update(p, mesh, m, focusTargetMesh, sin) ==
    LET target == PositionTarget(p, mesh, m, focusTargetMesh)
        lerpSpeed == IF m = "FOCUS" /\ mesh = focusTargetMesh THEN 50 ELSE 20
        rot == RotationLogic(m)
        s == ScaleLogic(p, mesh, m, focusTargetMesh, sin)
    IN  [p EXCEPT !.target = target, !.lerpSpeed = lerpSpeed, !.rot = rot,
                  !.lookAt = (m = "FOCUS" /\ mesh = focusTargetMesh),
                  !.scaleTarget = s]

(***************************************************************************)
(* The mode state machine: processGestures.                                *)
(***************************************************************************)
StateNow == [mode |-> mode, focusTarget |-> focusTarget, hand |-> hand,
          raised |-> FALSE]

\* a mode machine in which a hand that shows no gesture returns to TREE
NextModeUnknownResets(g, m) ==
    IF g = "PINCH" THEN "FOCUS"
    ELSE IF g = "FIST" THEN "TREE"
    ELSE IF g = "OPEN_PALM" THEN "SCATTER"
    ELSE "TREE"

\* STATE.mode after the branch for gesture g
NextMode(g, m) ==
    IF g = "PINCH" THEN (IF m # "FOCUS" THEN "FOCUS" ELSE m)
    ELSE IF g = "FIST" THEN "TREE"
    ELSE IF g = "OPEN_PALM" THEN "SCATTER"
    ELSE m

\* a focus rule without the `mode !== FOCUS` test: every PINCH picks anew
NextFocusRepicks(g, m, f, candidates, pick) ==
    IF g = "PINCH" THEN (IF candidates # {} THEN pick ELSE f)
    ELSE IF g = "FIST" THEN NULL
    ELSE IF g = "OPEN_PALM" THEN NULL
    ELSE f

\* STATE.focusTarget after the branch for gesture g; pick is the photo
\* Math.random selects
NextFocus(g, m, f, candidates, pick) ==
    IF g = "PINCH"
    THEN (IF m # "FOCUS" THEN (IF candidates # {} THEN pick ELSE f) ELSE f)
    ELSE IF g = "FIST" THEN NULL
    ELSE IF g = "OPEN_PALM" THEN NULL
    ELSE f

\* a lost hand taken for a gesture: back to TREE, the target dropped
OnNoHandResets(st) ==
    [st EXCEPT !.hand.detected = FALSE, !.mode = "TREE", !.focusTarget = NULL]

\* the else branch: no landmarks
OnNoHand(st) == [st EXCEPT !.hand.detected = FALSE]

ProcessGestures(st, ps, res, pick) ==
    IF res = NoHand THEN OnNoHand(st)
    ELSE LET lm  == res[1]
             st0 == [st EXCEPT !.hand.detected = TRUE]
         IN  IF ~Has(lm, 9) THEN [st0 EXCEPT !.raised = TRUE]
             ELSE LET st1 == [st0 EXCEPT !.hand.x = (Lm(lm, 9).x - 50) * 2,
                                         !.hand.y = (Lm(lm, 9).y - 50) * 2]
                  IN  IF ~Readable(lm) THEN [st1 EXCEPT !.raised = TRUE]
                      ELSE LET g == GestureOf(lm)
                           IN  [st1 EXCEPT
                                  !.mode = NextMode(g, st.mode),
                                  !.focusTarget =
                                      NextFocus(g, st.mode, st.focusTarget,
                                                PhotoIndices(ps), pick)]

\* a present, readable sample
Classified(res) == res # NoHand /\ Readable(res[1])

\* the recording of the samples that follow Scenario: g is the gesture of
\* the sample, m the mode after it
Record(classified, g, m) ==
    IF classified /\ recording /\ Len(played) < Len(Scenario)
    THEN IF g = Scenario[Len(played) + 1]
         THEN /\ played' = Append(played, g)
              /\ modesSeen' = Append(modesSeen, m)
              /\ recording' = TRUE
         ELSE /\ recording' = FALSE
              /\ UNCHANGED <<played, modesSeen>>
    ELSE UNCHANGED <<played, modesSeen, recording>>

\* predictWebcam: one frame of the sample loop; after the unmount
\* videoRef.current is null, the frame is not read and the next is requested
PredictWebcamBody(res, pick) ==
    IF frameFresh /\ ~cleaned
    THEN /\ frameFresh' = FALSE
         /\ IF handLandmarker
            THEN \E st \in {ProcessGestures(StateNow, particleSystem,
                                            Samples[res], pick)} :
                     /\ result' = res
                     /\ before' = [mode |-> mode, focusTarget |-> focusTarget]
                     /\ mode' = st.mode
                     /\ focusTarget' = st.focusTarget
                     /\ hand' = st.hand
                     /\ raised' = st.raised
                     /\ predictLoop' = IF st.raised THEN "dead" ELSE "scheduled"
                     /\ \E c \in {Classified(Samples[res])} :
                            Record(c, IF c THEN GestureOf(Samples[res][1])
                                      ELSE "UNKNOWN", st.mode)
            ELSE /\ predictLoop' = "scheduled"
                 /\ UNCHANGED <<result, before, mode, focusTarget, hand,
                                raised, played, modesSeen, recording>>
    ELSE /\ predictLoop' = "scheduled"
         /\ UNCHANGED <<frameFresh, result, before, mode, focusTarget, hand,
                        raised, played, modesSeen, recording>>

\* a selection from the whole registry, without the filter on the type
PicksAnyParticle(res) ==
    IF /\ Classified(Samples[res])
       /\ GestureOf(Samples[res][1]) = "PINCH"
       /\ PhotoIndices(particleSystem) # {}
    THEN 1..Len(particleSystem)
    ELSE {NULL}

\* the photos Math.random can select when res is processed
Picks(res) ==
    IF /\ Classified(Samples[res])
       /\ GestureOf(Samples[res][1]) = "PINCH"
       /\ PhotoIndices(particleSystem) # {}
    THEN PhotoIndices(particleSystem)
    ELSE {NULL}

\* the detection results a frame can give: one stands for all when the frame
\* is not processed
Detections ==
    IF frameFresh /\ ~cleaned /\ handLandmarker THEN Results ELSE {result}

\* the "loadeddata" listener calls predictWebcam for the first time
LoadedData ==
    /\ UNCHANGED sceneVars
    /\ UNCHANGED geoVars
    /\ UNCHANGED cleaned
    /\ predictLoop = "armed"
    /\ \E res \in Detections : \E pick \in Picks(res) :
           PredictWebcamBody(res, pick)
    /\ UNCHANGED <<rotation, particleSystem, handLandmarker, addPhotoRef,
                   initPc, animLoop, tickSaw>>

\* requestAnimationFrame(predictWebcam) fires
PredictWebcam ==
    /\ UNCHANGED sceneVars
    /\ UNCHANGED geoVars
    /\ UNCHANGED cleaned
    /\ predictLoop = "scheduled"
    /\ \E res \in Detections : \E pick \in Picks(res) :
           PredictWebcamBody(res, pick)
    /\ UNCHANGED <<rotation, particleSystem, handLandmarker, addPhotoRef,
                   initPc, animLoop, tickSaw>>

\* the video element shows a new frame
VideoFrame ==
    /\ UNCHANGED sceneVars
    /\ UNCHANGED geoVars
    /\ UNCHANGED cleaned
    /\ UNCHANGED before
    /\ predictLoop \in {"armed", "scheduled"}
    /\ ~frameFresh
    /\ frameFresh' = TRUE
    /\ UNCHANGED <<mode, focusTarget, hand, rotation, particleSystem,
                   handLandmarker, addPhotoRef, initPc, predictLoop, animLoop,
                   result, raised, played, modesSeen, recording, tickSaw>>

(***************************************************************************)
(* The Animator: animate.                                                  *)
(***************************************************************************)
\* a rotation rule that goes on following STATE.hand.x and y, which keep
\* their last values, after the hand is lost
RotationDriveIgnoresPresence(m, detected) ==
    IF m = "SCATTER" THEN "hand"
    ELSE IF m = "TREE" THEN "tree" ELSE "drift"

\* the rule of the "Rotation Logic" block that drives STATE.rotation
RotationDrive(m, detected) ==
    IF m = "SCATTER" /\ detected THEN "hand"
    ELSE IF m = "TREE" THEN "tree" ELSE "drift"

Sines == {0, 10}

AnimateBody(sin) ==
    /\ rotation' = [drive |-> RotationDrive(mode, hand.detected)]
    /\ particleSystem' =
           [i \in 1..Len(particleSystem) |->
               Update(particleSystem[i], i, mode, focusTarget, sin)]
    /\ tickSaw' = [mode |-> mode, focusTarget |-> focusTarget, sin |-> sin]
    /\ animLoop' = TRUE

\* a tick with a timeout: with no hand detected the mode returns to TREE
AnimateTimesOut ==
    /\ UNCHANGED sceneVars
    /\ UNCHANGED geoVars
    /\ UNCHANGED cleaned
    /\ UNCHANGED before
    /\ animLoop
    /\ \E sin \in Sines : AnimateBody(sin)
    /\ mode' = IF hand.detected THEN mode ELSE "TREE"
    /\ focusTarget' = IF hand.detected THEN focusTarget ELSE NULL
    /\ UNCHANGED <<hand, handLandmarker, addPhotoRef, initPc, predictLoop,
                   frameFresh, result, raised, played, modesSeen, recording>>

\* animate: one frame of the render loop
Animate ==
    /\ UNCHANGED sceneVars
    /\ UNCHANGED geoVars
    /\ UNCHANGED cleaned
    /\ UNCHANGED before
    /\ animLoop
    /\ \E sin \in Sines : AnimateBody(sin)
    /\ UNCHANGED <<mode, focusTarget, hand, handLandmarker, addPhotoRef,
                   initPc, predictLoop, frameFresh, result, raised, played,
                   modesSeen, recording>>

(***************************************************************************)
(* The App effect: init, and the upload bridge.                            *)
(***************************************************************************)
\* init() up to `await initMediaPipe()`
InitScene ==
    /\ UNCHANGED sceneVars
    /\ UNCHANGED geoVars
    /\ UNCHANGED cleaned
    /\ UNCHANGED before
    /\ initPc = "start"
    /\ particleSystem' = InitialRegistry
    /\ initPc' = "awaitMediaPipe"
    /\ UNCHANGED <<mode, focusTarget, hand, rotation, handLandmarker,
                   addPhotoRef, predictLoop, animLoop, frameFresh, result,
                   raised, played, modesSeen, recording, tickSaw>>

\* initMediaPipe resolves, with or without a camera, and init() goes on to
\* addPhotoRef.current = addPhotoToScene and the first animate().  After the
\* unmount videoRef.current is null: no listener is added then, and a stream
\* that arrives for it makes initMediaPipe reject (InitMediaPipeFails).
InitMediaPipe ==
    /\ UNCHANGED sceneVars
    /\ UNCHANGED geoVars
    /\ UNCHANGED cleaned
    /\ UNCHANGED before
    /\ initPc = "awaitMediaPipe"
    /\ handLandmarker' = TRUE
    /\ \E camera \in (IF cleaned THEN {FALSE} ELSE BOOLEAN) :
           predictLoop' = IF camera THEN "armed" ELSE "off"
    /\ addPhotoRef' = TRUE
    /\ initPc' = "done"
    /\ \E sin \in Sines : AnimateBody(sin)
    /\ UNCHANGED <<mode, focusTarget, hand, frameFresh, result, raised,
                   played, modesSeen, recording>>

\* initMediaPipe rejects (the model or the camera cannot be had): init() ends
InitMediaPipeFails ==
    /\ UNCHANGED sceneVars
    /\ UNCHANGED geoVars
    /\ UNCHANGED cleaned
    /\ UNCHANGED before
    /\ initPc = "awaitMediaPipe"
    /\ initPc' = "failed"
    /\ UNCHANGED <<mode, focusTarget, hand, rotation, particleSystem,
                   handLandmarker, addPhotoRef, predictLoop, animLoop,
                   frameFresh, result, raised, played, modesSeen, recording,
                   tickSaw>>

\* handleFileUpload: the texture has loaded
UploadPhoto ==
    /\ UNCHANGED sceneVars
    /\ UNCHANGED geoVars
    /\ UNCHANGED cleaned
    /\ UNCHANGED before
    /\ addPhotoRef
    /\ Cardinality(PhotoIndices(particleSystem)) < MaxPhotos
    /\ particleSystem' = AddPhotoTo(particleSystem)
    /\ UNCHANGED <<mode, focusTarget, hand, rotation, handLandmarker,
                   addPhotoRef, initPc, predictLoop, animLoop, frameFresh,
                   result, raised, played, modesSeen, recording, tickSaw>>


\* the cleanup the effect returns, run when App unmounts; the effect has by
\* then run init() up to its await.  animationFrameId holds the request of
\* predictWebcam only: animate keeps the id of its request nowhere, and the
\* "loadeddata" listener is not removed.
Cleanup ==
    /\ UNCHANGED sceneVars
    /\ UNCHANGED geoVars
    /\ UNCHANGED before
    /\ ~cleaned
    /\ initPc # "start"
    /\ cleaned' = TRUE
    /\ predictLoop' = IF predictLoop = "scheduled" THEN "off" ELSE predictLoop
    /\ addPhotoRef' = FALSE
    /\ UNCHANGED <<mode, focusTarget, hand, rotation, particleSystem,
                   handLandmarker, initPc, animLoop, frameFresh, result,
                   raised, played, modesSeen, recording, tickSaw>>

(***************************************************************************)
(* The component pipeline: HandTracker.detect.                             *)
(***************************************************************************)
\* detect reads landmarks[4], [8], [0], [12], [16], [20]
TrackerReadable(lm) == \A i \in {0, 4, 8, 12, 16, 20} : Has(lm, i)

\* a classifier that tests the fist before the pinch
TrackerGestureFistFirst(lm) ==
    IF TipSum(lm) < 4 * TrackerFist THEN "FIST"
    ELSE IF PinchDist(lm) < TrackerPinch THEN "PINCH"
    ELSE IF TipSum(lm) > 4 * TrackerOpen THEN "OPEN_PALM"
    ELSE "UNKNOWN"

\* the gesture detect assigns
TrackerGesture(lm) ==
    IF PinchDist(lm) < TrackerPinch THEN "PINCH"
    ELSE IF TipSum(lm) < 4 * TrackerFist THEN "FIST"
    ELSE IF TipSum(lm) > 4 * TrackerOpen THEN "OPEN_PALM"
    ELSE "UNKNOWN"

\* the HandState detect hands to onHandUpdate
HandStateOf(res) ==
    IF res # NoHand
    THEN [ gesture |-> TrackerGesture(res[1]),
           position |-> [x |-> (Lm(res[1], 0).x - 50) * (-2),
                         y |-> (Lm(res[1], 0).y - 50) * (-2)],
           isPresent |-> TRUE ]
    ELSE [ gesture |-> "UNKNOWN", position |-> [x |-> 0, y |-> 0],
           isPresent |-> FALSE ]

\* loadLandmarker resolves: setLoaded(true), and the effect on [loaded]
\* requests the first frame of detect
LoadLandmarker ==
    /\ trackerPc = "loading"
    /\ trackerPc' = "loaded"
    /\ detectLoop' = "scheduled"
    /\ UNCHANGED <<trackerInput, handUpdates, videoReady>>
    /\ UNCHANGED treeVars
    /\ UNCHANGED appVars
    /\ UNCHANGED geoVars

\* the webcam video reaches or leaves readyState 4
VideoReadyState ==
    /\ videoReady' = ~videoReady
    /\ UNCHANGED <<trackerInput, handUpdates, detectLoop, trackerPc>>
    /\ UNCHANGED treeVars
    /\ UNCHANGED appVars
    /\ UNCHANGED geoVars

\* detect: one frame of the HandTracker loop; a TypeError ends the loop
\* before the next frame is requested
Detect ==
    /\ detectLoop = "scheduled"
    /\ IF videoReady
       THEN \E res \in Results :
              /\ trackerInput' = res
              /\ IF Samples[res] # NoHand /\ ~TrackerReadable(Samples[res][1])
                 THEN /\ detectLoop' = "dead"
                      /\ UNCHANGED handUpdates
                 ELSE /\ handUpdates' = <<HandStateOf(Samples[res])>>
                      /\ detectLoop' = "scheduled"
       ELSE UNCHANGED <<trackerInput, handUpdates, detectLoop>>
    /\ UNCHANGED <<trackerPc, videoReady>>
    /\ UNCHANGED treeVars
    /\ UNCHANGED appVars
    /\ UNCHANGED geoVars

\* the cleanup of the mount effect: cancelAnimationFrame(requestRef.current)
TrackerUnmount ==
    /\ trackerPc # "unmounted"
    /\ trackerPc' = "unmounted"
    /\ detectLoop' = IF detectLoop = "scheduled" THEN "cancelled" ELSE detectLoop
    /\ UNCHANGED <<trackerInput, handUpdates, videoReady>>
    /\ UNCHANGED treeVars
    /\ UNCHANGED appVars
    /\ UNCHANGED geoVars

(***************************************************************************)
(* The component pipeline: processPhotos and TreeScene.                    *)
(***************************************************************************)
\* a cone whose radius is taken one step nearer the apex
CalculateTreePositionApex(index, total) ==
    [ y |-> (index * TreeHeight * 1000) \div total - (TreeHeight * 1000) \div 2,
      r |-> (TreeRadius * 1000 * (total - index - 1)) \div total,
      angle |-> index * 5 ]

\* calculateTreePosition(index, total), in cylinder coordinates: height y and
\* radius r in thousandths, angle in tenths of a radian
CalculateTreePosition(index, total) ==
    [ y |-> (index * TreeHeight * 1000) \div total - (TreeHeight * 1000) \div 2,
      r |-> (TreeRadius * 1000 * (total - index)) \div total,
      angle |-> index * 5 ]

\* pos.multiplyScalar(1.3)
PushOut(pos) == [pos EXCEPT !.y = (pos.y * 13) \div 10, !.r = (pos.r * 13) \div 10]

\* Double-precision arithmetic, as far as processPhotos needs it.  A double
\* in [1, 2) * 2^-(z+1) is held by its 53-bit mantissa in three limbs: a of
\* 17 bits with the leading one, b and c of 18 bits.
Limb == 262144

\* the place of the first one bit of i / n, 0 < i < n, after the binary point
LeadingZeros(i, n) ==
    CHOOSE z \in 0..12 : i * 2^(z + 1) >= n /\ i * 2^z < n

\* i / n, 0 < i < n, rounded to nearest, ties to even
DivDouble(i, n) ==
    LET z  == LeadingZeros(i, n)
        r0 == i * 2^(z + 1) - n
        q1 == (r0 * 65536) \div n
        r1 == (r0 * 65536) % n
        q2 == (r1 * Limb) \div n
        r2 == (r1 * Limb) % n
        q3 == (r2 * Limb) \div n
        r3 == (r2 * Limb) % n
        up == 2 * r3 > n \/ (2 * r3 = n /\ q3 % 2 = 1)
        c  == IF up THEN q3 + 1 ELSE q3
        b  == IF c = Limb THEN q2 + 1 ELSE q2
        a  == IF b = Limb THEN 65536 + q1 + 1 ELSE 65536 + q1
    IN  [z |-> z, a |-> a, b |-> b % Limb, c |-> c % Limb]

\* Math.floor(q * k) for the double q of DivDouble and a whole k below 512:
\* the product is rounded to 53 bits, ties to even, before the floor
FloorOfProduct(q, k) ==
    LET pc0  == q.c * k
        pb0  == q.b * k + pc0 \div Limb
        pa0  == q.a * k + pb0 \div Limb
        pc   == pc0 % Limb
        pb   == pb0 % Limb
        unit == IF pa0 >= 33554432 THEN 512 ELSE 256
        low  == pc % unit
        keep == pc - low
        up   == 2 * low > unit \/ (2 * low = unit /\ (keep \div unit) % 2 = 1)
        c    == IF up THEN keep + unit ELSE keep
        b    == IF c >= Limb THEN pb + 1 ELSE pb
        a    == IF b = Limb THEN pa0 + 1 ELSE pa0
    IN  a \div 2^(q.z + 17)

\* a treeIndex that rounds to the nearest index instead of flooring
TreeIndexRounded(i, n) == (2 * i * ParticleCount + n) \div (2 * n)

\* the treeIndex of processPhotos for the i-th of n urls:
\* Math.floor((i / urls.length) * CONFIG.PARTICLE_COUNT)
TreeIndex(i, n) ==
    IF i = 0 THEN 0 ELSE FloorOfProduct(DivDouble(i, n), ParticleCount)

\* processPhotos(urls) for n urls; draws[i + 1] is the calculateScatterPosition()
\* drawn for url i
ProcessPhotos(n, draws) ==
    [ k \in 1..n |->
        [ id |-> k,
          initialPos |-> PushOut(CalculateTreePosition(TreeIndex(k - 1, n),
                                                       ParticleCount)),
          scatterPos |-> draws[k] ] ]

ScatterDraws == {1, 2}

\* focusedPhotoId as the next render reads it: the queued update, if any
RenderedFocus == IF focusQueued # << >> THEN focusQueued[1] ELSE focusedPhotoId

\* the parent renders TreeScene with another mode; React runs the effects of
\* a render before the next render
SetMode ==
    /\ ~effectDue
    /\ \E m \in {"TREE", "SCATTER", "ZOOM"} :
          /\ m # sceneMode
          /\ sceneMode' = m
    /\ focusedPhotoId' = RenderedFocus
    /\ focusQueued' = << >>
    /\ effectDue' = TRUE
    /\ UNCHANGED trackerVars
    /\ UNCHANGED <<photoUrls, photos, frameSaw>>
    /\ UNCHANGED appVars
    /\ UNCHANGED geoVars

\* the parent renders TreeScene with one more url: useMemo recomputes photos
AddPhotoUrl ==
    /\ ~effectDue
    /\ photoUrls < MaxUrls
    /\ photoUrls' = photoUrls + 1
    /\ \E draws \in [1..(photoUrls + 1) -> ScatterDraws] :
          photos' = ProcessPhotos(photoUrls + 1, draws)
    /\ focusedPhotoId' = RenderedFocus
    /\ focusQueued' = << >>
    /\ effectDue' = TRUE
    /\ UNCHANGED trackerVars
    /\ UNCHANGED <<sceneMode, frameSaw>>
    /\ UNCHANGED appVars
    /\ UNCHANGED geoVars

\* the render that setFocusedPhotoId asked for
Rerender ==
    /\ ~effectDue
    /\ focusQueued # << >>
    /\ focusedPhotoId' = focusQueued[1]
    /\ focusQueued' = << >>
    /\ effectDue' = TRUE
    /\ UNCHANGED trackerVars
    /\ UNCHANGED <<sceneMode, photoUrls, photos, frameSaw>>
    /\ UNCHANGED appVars
    /\ UNCHANGED geoVars

\* the effect on [mode, photos, focusedPhotoId], after the render; a
\* setFocusedPhotoId of the value already held asks for no render
FocusEffect ==
    /\ effectDue
    /\ effectDue' = FALSE
    /\ IF sceneMode = "ZOOM" /\ Len(photos) > 0
       THEN IF focusedPhotoId = NULL
            THEN \E k \in 1..Len(photos) : focusQueued' = <<photos[k].id>>
            ELSE UNCHANGED focusQueued
       ELSE IF sceneMode # "ZOOM" /\ focusedPhotoId # NULL
            THEN focusQueued' = <<NULL>>
            ELSE UNCHANGED focusQueued
    /\ UNCHANGED trackerVars
    /\ UNCHANGED <<sceneMode, photoUrls, photos, focusedPhotoId, frameSaw>>
    /\ UNCHANGED appVars
    /\ UNCHANGED geoVars

\* the target PhotoPlane's useFrame sets for a photo plane
PlaneTarget(m, isFocused) ==
    IF m = "ZOOM" /\ isFocused THEN "camera"
    ELSE IF m = "TREE" THEN "initialPos"
    ELSE "scatterPos"

\* useFrame of every PhotoPlane: one frame of the canvas loop, which runs on
\* the props of the last render, whether or not its effect has run
Frame ==
    /\ frameSaw' = [ mode |-> sceneMode, focused |-> focusedPhotoId,
                     photos |-> Len(photos),
                     targets |-> [k \in 1..Len(photos) |->
                                     PlaneTarget(sceneMode,
                                                 focusedPhotoId = photos[k].id)] ]
    /\ UNCHANGED trackerVars
    /\ UNCHANGED <<sceneMode, photoUrls, photos, focusedPhotoId, focusQueued,
                   effectDue>>
    /\ UNCHANGED appVars
    /\ UNCHANGED geoVars

(***************************************************************************)
(* The formation generator called on its own.                              *)
(***************************************************************************)
\* particles made in one call
MaxCount == 2

\* the largest total handed to calculateTreePosition
MaxTotal == 10

\* CONFIG.particles of the App, and the floor of its cone radius in thousandths
AppTreeHeight == 24
AppTreeRadius == 8
RadiusFloor == 500

\* Math.random() of generateParticles in hundredths, at and beside the bounds
\* of its branches
RandomVals == {0, 49, 50, 74, 75, 89, 90, 99}

\* Math.random() of randFloat in thousandths, the least and the greatest
UnitDraws == {0, 999}

\* a randFloat taken for randFloatSpread: a draw around zero
RandFloatCentred(low, high, u) ==
    (u * (high - low)) \div 1000 - (high - low) \div 2

\* MathUtils.randFloat(low, high): low + Math.random() * (high - low), in
\* thousandths
RandFloat(low, high, u) == low + (u * (high - low)) \div 1000

\* the particle generateParticles pushes for index i
GenerateParticle(i, count, randomVal, u, scatter) ==
    LET kind ==
            IF randomVal < 50
            THEN <<"SPHERE", "MATTE_GREEN", RandFloat(150, 350, u)>>
            ELSE IF randomVal < 75
            THEN <<"SPHERE", "METALLIC_GOLD", RandFloat(200, 400, u)>>
            ELSE IF randomVal < 90
            THEN <<"CUBE", "CHRISTMAS_RED", RandFloat(200, 450, u)>>
            ELSE <<"CANDY", "WHITE", RandFloat(100, 200, u)>>
    IN  [ id |-> i,
          initialPos |-> CalculateTreePosition(i, count),
          scatterPos |-> scatter,
          color |-> kind[2],
          type |-> kind[1],
          scale |-> kind[3] ]

\* generateParticles(count); draws[i + 1] holds the random draws of index i
GenerateParticles(count, draws) ==
    [ k \in 1..count |->
        GenerateParticle(k - 1, count, draws[k][1], draws[k][2], draws[k][3]) ]

\* calculateTreePosition for every index of one total
CallCalculateTreePosition ==
    /\ \E total \in 1..MaxTotal :
          /\ geoCall' = [op |-> "calculateTreePosition", n |-> total]
          /\ geoResult' =
                 [k \in 1..total |-> CalculateTreePosition(k - 1, total)]
    /\ UNCHANGED appVars
    /\ UNCHANGED sceneVars

\* Math.random() of Particle.calculatePositions in thousandths
HeightDraws == {0, 500, 900, 950, 999}

\* Math.pow(t, 0.8) on those draws, in thousandths
Pow08(t) ==
    CASE t = 0 -> 0
      [] t = 500 -> 574
      [] t = 900 -> 919
      [] t = 950 -> 959
      [] t = 999 -> 999

\* Particle.calculatePositions, the tree part: height y, the cone radius rMax
\* at that height and the jittered radius r, in thousandths
CalculatePositions(draw, jitter) ==
    LET t == Pow08(draw)
        cone == AppTreeRadius * (1000 - t)
        rMax == IF cone < RadiusFloor THEN RadiusFloor ELSE cone
    IN  [ t |-> t,
          y |-> t * AppTreeHeight - (AppTreeHeight * 1000) \div 2,
          rMax |-> rMax,
          r |-> (rMax * (800 + (jitter * 400) \div 1000)) \div 1000 ]

\* the App constructs its particles one after the other, each with draws of
\* its own
CallCalculatePositions ==
    /\ \E count \in 1..MaxCount :
       \E draws \in [1..count -> HeightDraws \X UnitDraws] :
          /\ geoCall' = [op |-> "calculatePositions", n |-> count]
          /\ geoResult' =
                 [k \in 1..count |-> CalculatePositions(draws[k][1], draws[k][2])]
    /\ UNCHANGED appVars
    /\ UNCHANGED sceneVars

CallGenerateParticles ==
    /\ \E count \in 0..MaxCount :
       \E draws \in [1..count -> RandomVals \X UnitDraws], d \in ScatterDraws :
          /\ geoCall' = [op |-> "generateParticles", n |-> count]
          /\ geoResult' =
                 GenerateParticles(count,
                     [k \in 1..count |-> <<draws[k][1], draws[k][2], d>>])
    /\ UNCHANGED appVars
    /\ UNCHANGED sceneVars

\* urls handed to processPhotos in one call
MaxPhotoCount == 45

\* processPhotos(urls) called with n urls, every calculateScatterPosition()
\* drawing alike
CallProcessPhotos ==
    /\ \E n \in 0..MaxPhotoCount : \E d \in ScatterDraws :
          /\ geoCall' = [op |-> "processPhotos", n |-> n]
          /\ geoResult' = ProcessPhotos(n, [k \in 1..n |-> d])
    /\ UNCHANGED appVars
    /\ UNCHANGED sceneVars

Init ==
    /\ mode = "TREE"
    /\ focusTarget = NULL
    /\ hand = [detected |-> FALSE, x |-> 0, y |-> 0]
    /\ rotation = [drive |-> "none"]
    /\ particleSystem = << >>
    /\ handLandmarker = FALSE
    /\ addPhotoRef = FALSE
    /\ initPc = "start"
    /\ predictLoop = "off"
    /\ animLoop = FALSE
    /\ frameFresh = TRUE
    /\ result = 1
    /\ raised = FALSE
    /\ played = << >>
    /\ modesSeen = << >>
    /\ recording = TRUE
    /\ tickSaw = [mode |-> "none", focusTarget |-> NULL, sin |-> 0]
    /\ before = [mode |-> "TREE", focusTarget |-> NULL]
    /\ cleaned = FALSE
    /\ trackerInput = 1
    /\ handUpdates = << >>
    /\ detectLoop = "off"
    /\ trackerPc = "loading"
    /\ videoReady = FALSE
    /\ sceneMode = "TREE"
    /\ photoUrls = 0
    /\ photos = << >>
    /\ focusedPhotoId = NULL
    /\ focusQueued = << >>
    /\ effectDue = TRUE
    /\ frameSaw = [mode |-> "none", focused |-> NULL, photos |-> 0,
                   targets |-> << >>]
    /\ geoCall = [op |-> "none"]
    /\ geoResult = << >>

Next ==
    \/ InitScene
    \/ InitMediaPipe
    \/ InitMediaPipeFails
    \/ LoadedData
    \/ PredictWebcam
    \/ VideoFrame
    \/ Animate
    \/ UploadPhoto

Spec == Init /\ [][Next]_vars

\* the App from mount to unmount and after
LifeNext ==
    \/ InitScene
    \/ InitMediaPipe
    \/ InitMediaPipeFails
    \/ LoadedData
    \/ PredictWebcam
    \/ VideoFrame
    \/ Animate
    \/ UploadPhoto
    \/ Cleanup

LifeSpec == Init /\ [][LifeNext]_vars

\* The engine on its own, over a registry that is an input: processGestures,
\* animate and addPhotoToScene running on the ornaments with or without the
\* default photo.
CoreInit ==
    /\ mode = "TREE"
    /\ focusTarget = NULL
    /\ hand = [detected |-> FALSE, x |-> 0, y |-> 0]
    /\ rotation = [drive |-> "none"]
    /\ particleSystem \in {Ornaments, InitialRegistry}
    /\ handLandmarker = TRUE
    /\ addPhotoRef = TRUE
    /\ initPc = "done"
    /\ predictLoop = "armed"
    /\ animLoop = TRUE
    /\ frameFresh = TRUE
    /\ result = 1
    /\ raised = FALSE
    /\ played = << >>
    /\ modesSeen = << >>
    /\ recording = TRUE
    /\ tickSaw = [mode |-> "none", focusTarget |-> NULL, sin |-> 0]
    /\ before = [mode |-> "TREE", focusTarget |-> NULL]
    /\ cleaned = FALSE
    /\ trackerInput = 1
    /\ handUpdates = << >>
    /\ detectLoop = "off"
    /\ trackerPc = "loading"
    /\ videoReady = FALSE
    /\ sceneMode = "TREE"
    /\ photoUrls = 0
    /\ photos = << >>
    /\ focusedPhotoId = NULL
    /\ focusQueued = << >>
    /\ effectDue = TRUE
    /\ frameSaw = [mode |-> "none", focused |-> NULL, photos |-> 0,
                   targets |-> << >>]
    /\ geoCall = [op |-> "none"]
    /\ geoResult = << >>

CoreNext ==
    \/ LoadedData
    \/ PredictWebcam
    \/ VideoFrame
    \/ Animate
    \/ UploadPhoto

CoreSpec == CoreInit /\ [][CoreNext]_vars

\* HandTracker on its own
TrackerNext ==
    \/ LoadLandmarker
    \/ VideoReadyState
    \/ Detect
    \/ TrackerUnmount

TrackerSpec == Init /\ [][TrackerNext]_vars

\* TreeScene on its own
SceneNext ==
    \/ SetMode
    \/ AddPhotoUrl
    \/ Rerender
    \/ FocusEffect
    \/ Frame

SceneSpec == Init /\ [][SceneNext]_vars

\* Vector3.lerp as Particle.update calls it.  Coordinates are in millionths,
\* dt = clock.getDelta() in hundredths of a second, the lerp speed in tenths.
\* The ticks followed from one start:
MaxTicks == 3

\* beyond this distance from the target no further tick is followed
MaxDist == 2000000

\* clock.getDelta(): a frame of a 50 Hz display, a slow frame, and the gaps
\* left by a page that was in the background
Deltas == {2, 20, 50, 100}

\* lerpSpeed: 2.0, and 5.0 for the focus target
LerpSpeeds == {20, 50}

Places == {<<0, 0, 0>>, <<1000000, 0, 0>>, <<-500000, 250000, 250000>>}

\* v.lerp(target, lerpSpeed * dt): v += (target - v) * alpha
Lerp(v, target, lerpSpeed, dt) ==
    LET alpha == (lerpSpeed * dt) \div 10
    IN  [c \in 1..3 |-> v[c] + ((target[c] - v[c]) * alpha) \div 100]

\* the distance of two points, summed over the axes: a lerp scales it as it
\* scales the length of the difference
Dist(v, w) == Abs(v[1] - w[1]) + Abs(v[2] - w[2]) + Abs(v[3] - w[3])

\* a particle at some place, a target that stays, a dt that stays
StartLerp ==
    /\ \E v \in Places, target \in Places, lerpSpeed \in LerpSpeeds,
          dt \in Deltas :
          /\ geoCall' = [op |-> "lerp", from |-> v, target |-> target,
                         lerpSpeed |-> lerpSpeed, dt |-> dt, ticks |-> 0]
          /\ geoResult' = v
    /\ UNCHANGED appVars
    /\ UNCHANGED sceneVars

\* one tick: this.mesh.position.lerp(target, lerpSpeed * dt)
LerpTick ==
    /\ geoCall.op = "lerp"
    /\ geoCall.ticks < MaxTicks
    /\ Dist(geoResult, geoCall.target) <= MaxDist
    /\ geoCall' = [geoCall EXCEPT !.from = geoResult, !.ticks = @ + 1]
    /\ geoResult' = Lerp(geoResult, geoCall.target, geoCall.lerpSpeed,
                         geoCall.dt)
    /\ UNCHANGED appVars
    /\ UNCHANGED sceneVars

LerpNext ==
    \/ StartLerp
    \/ LerpTick

LerpSpec == Init /\ [][LerpNext]_vars

\* The "Rotation Logic" block of animate in numbers.  STATE.rotation.x and y
\* are in thousandths of a radian, STATE.hand.x and y in hundredths, dt in
\* hundredths of a second.
HandPoints == {<<100, 0>>, <<-50, 100>>}

\* targetRotY = hand.x * Math.PI * 0.9, targetRotX = hand.y * Math.PI * 0.25
TargetRotY(h) == (h.x * 2827) \div 100
TargetRotX(h) == (h.y * 785) \div 100

\* STATE.rotation after the block, from STATE.rotation rot
RotateScene(rot, m, h, dt) ==
    LET drive == RotationDrive(m, h.detected)
    IN  IF drive = "hand"
        THEN [ y |-> rot.y + ((TargetRotY(h) - rot.y) * 3 * dt) \div 100,
               x |-> rot.x + ((TargetRotX(h) - rot.x) * 3 * dt) \div 100 ]
        ELSE IF drive = "tree"
        THEN [ y |-> rot.y + 3 * dt,
               x |-> rot.x + ((0 - rot.x) * 2 * dt) \div 100 ]
        ELSE [ y |-> rot.y + dt, x |-> rot.x ]

\* the scene in one mode, STATE.rotation and STATE.hand as they start
StartAnimate ==
    /\ \E m \in {"TREE", "SCATTER", "FOCUS"} :
          geoCall' = [ op |-> "animate", mode |-> m,
                       hand |-> [detected |-> FALSE, x |-> 0, y |-> 0],
                       from |-> [x |-> 0, y |-> 0], dt |-> 0,
                       saw |-> [detected |-> FALSE, x |-> 0, y |-> 0],
                       lostAt |-> << >>, ticks |-> 0 ]
    /\ geoResult' = [x |-> 0, y |-> 0]
    /\ UNCHANGED appVars
    /\ UNCHANGED sceneVars

\* processGestures with a hand: only STATE.hand is followed here
HandSeen ==
    /\ geoCall.op = "animate"
    /\ \E pt \in HandPoints :
          geoCall' = [geoCall EXCEPT
                         !.hand = [detected |-> TRUE, x |-> pt[1], y |-> pt[2]],
                         !.lostAt = << >>]
    /\ UNCHANGED geoResult
    /\ UNCHANGED appVars
    /\ UNCHANGED sceneVars

\* processGestures without a hand: detected = false, x and y stay
HandLost ==
    /\ geoCall.op = "animate"
    /\ geoCall.hand.detected
    /\ geoCall' = [geoCall EXCEPT !.hand.detected = FALSE,
                                  !.lostAt = <<geoResult>>]
    /\ UNCHANGED geoResult
    /\ UNCHANGED appVars
    /\ UNCHANGED sceneVars

\* animate, the rotation of one frame
AnimateTick ==
    /\ geoCall.op = "animate"
    /\ geoCall.ticks < MaxTicks
    /\ \E dt \in Deltas :
          /\ geoCall' = [geoCall EXCEPT !.from = geoResult, !.dt = dt,
                                        !.saw = geoCall.hand,
                                        !.ticks = @ + 1]
          /\ geoResult' = RotateScene(geoResult, geoCall.mode, geoCall.hand, dt)
    /\ UNCHANGED appVars
    /\ UNCHANGED sceneVars

RotationNext ==
    \/ StartAnimate
    \/ HandSeen
    \/ HandLost
    \/ AnimateTick

RotationSpec == Init /\ [][RotationNext]_vars

\* the formation generator on its own
GeoNext ==
    \/ CallProcessPhotos
    \/ CallGenerateParticles
    \/ CallCalculateTreePosition
    \/ CallCalculatePositions

GeoSpec == Init /\ [][GeoNext]_vars

(***************************************************************************)
(* Properties.                                                             *)
(***************************************************************************)
\* a step in which predictWebcam hands result' to processGestures
SampleStep == frameFresh /\ ~frameFresh' /\ handLandmarker

\* the gesture of the sample last processed, "NONE" if it had no readable hand
LastGesture ==
    IF Classified(Samples[result]) THEN GestureOf(Samples[result][1])
    ELSE "NONE"

ModeTable(g, m) ==
    CASE g = "PINCH" -> "FOCUS"
      [] g = "FIST" -> "TREE"
      [] g = "OPEN_PALM" -> "SCATTER"
      [] OTHER -> m

\* C1: after every sample with a hand present the mode is the one the
\* sample's gesture names, whatever the mode before (UNKNOWN keeps it), and
\* the samples PINCH, FIST, OPEN_PALM, UNKNOWN from TREE give the modes
\* FOCUS, TREE, SCATTER, SCATTER.
C1_ModeByGesture ==
    /\ [][ (SampleStep /\ Classified(Samples[result']))
             => mode' = ModeTable(GestureOf(Samples[result'][1]), mode) ]_vars
    /\ [](played = Scenario
             => modesSeen = <<"FOCUS", "TREE", "SCATTER", "SCATTER">>)

C1_Witness == played = Scenario /\ mode = "SCATTER"

\* C2: while the mode stays FOCUS a held focus target stays the same
\* particle, through further PINCH samples and photo uploads alike.
C2_FocusSticky ==
    [][ (mode = "FOCUS" /\ focusTarget # NULL /\ mode' = "FOCUS")
          => focusTarget' = focusTarget ]_vars

C2_Witness ==
    /\ LastGesture = "PINCH"
    /\ before.mode = "FOCUS"
    /\ before.focusTarget # NULL
    /\ focusTarget = before.focusTarget
    /\ Cardinality(PhotoIndices(particleSystem)) >= 2

\* TreeScene keeps the focused photo likewise, from render to render, while
\* its mode stays ZOOM.
SceneFocusSticky ==
    [][ (sceneMode = "ZOOM" /\ focusedPhotoId # NULL /\ sceneMode' = "ZOOM")
          => focusedPhotoId' = focusedPhotoId ]_vars

\* C3: in every state a focus target is held only while the mode is FOCUS;
\* of TreeScene: a photo is focused only while the mode is ZOOM.
C3_FocusOnlyInFocus == sceneMode # "ZOOM" => focusedPhotoId = NULL

\* STATE of the App has the property: processGestures clears
\* STATE.focusTarget in the branch that sets the mode.
AppFocusOnlyInFocus == mode # "FOCUS" => focusTarget = NULL

\* TreeScene has it once the effect of a render and the render it asks for
\* are through.
SceneFocusOnlyInFocusAtRest ==
    (~effectDue /\ focusQueued = << >> /\ sceneMode # "ZOOM")
    => focusedPhotoId = NULL

\* C4: a sample with no hand changes only the hand-detected flag: mode, focus
\* target and pointer stay.
C4_AbsentChangesOnlyFlag ==
    [][ (SampleStep /\ Samples[result'] = NoHand)
          => /\ mode' = mode
             /\ focusTarget' = focusTarget
             /\ hand' = [hand EXCEPT !.detected = FALSE]
             /\ raised' = raised ]_vars

C4_Witness ==
    /\ Samples[result] = NoHand
    /\ ~frameFresh
    /\ mode = "FOCUS"
    /\ focusTarget # NULL
    /\ ~hand.detected
    /\ hand.x # 0

\* C5: the classifier of HandTracker follows the priority rule: PINCH when
\* the pinch distance is below its threshold, else FIST when the spread is
\* below the fist threshold, else OPEN_PALM when it is above the open
\* threshold, else UNKNOWN; so every spread from the fist to the open
\* threshold gives UNKNOWN.  The distances are taken from the landmarks by
\* squares and by heights, the finger tips of every sampled hand standing
\* straight above the wrist.
C5_PriorityRule ==
    (detectLoop # "dead" /\ handUpdates # << >>)
    => IF Samples[trackerInput] = NoHand
       THEN handUpdates[1].gesture = "UNKNOWN" /\ ~handUpdates[1].isPresent
       ELSE LET lm == Samples[trackerInput][1]
                g == handUpdates[1].gesture
                pinch == (lm[5].x - lm[9].x) * (lm[5].x - lm[9].x)
                           + (lm[5].y - lm[9].y) * (lm[5].y - lm[9].y)
                           < TrackerPinch * TrackerPinch
                spread4 == (lm[1].y - lm[9].y) + (lm[1].y - lm[13].y)
                             + (lm[1].y - lm[17].y) + (lm[1].y - lm[21].y)
            IN  /\ TrackerFist < TrackerOpen
                /\ (g = "PINCH") <=> pinch
                /\ (g = "FIST") <=> (~pinch /\ spread4 < 4 * TrackerFist)
                /\ (g = "OPEN_PALM") <=> (~pinch /\ spread4 > 4 * TrackerOpen)
                /\ (g = "UNKNOWN") <=>
                       (~pinch /\ 4 * TrackerFist <= spread4
                               /\ spread4 <= 4 * TrackerOpen)

C5_Witness ==
    /\ detectLoop = "scheduled"
    /\ videoReady
    /\ Samples[trackerInput] = <<HandOf(21, 5, 0, 35, 35, 50)>>
    /\ handUpdates # << >>
    /\ handUpdates[1].gesture = "UNKNOWN"

\* a sample with a hand of fewer than 21 landmarks
Short(res) == Samples[res] # NoHand /\ Len(Samples[res][1]) < 21

\* C6: a hand with fewer than 21 landmarks is handled like no hand: nothing
\* is raised, the hand counts as not detected, mode and focus target stay.
C6_ShortAsAbsent ==
    [][ (SampleStep /\ Short(result'))
          => /\ ~raised'
             /\ ~hand'.detected
             /\ mode' = mode
             /\ focusTarget' = focusTarget ]_vars

\* the registry holds no PHOTO particle and the last tick ran in FOCUS
FocusTickWithoutPhotos ==
    /\ tickSaw.mode = "FOCUS"
    /\ PhotoIndices(particleSystem) = {}
    /\ Len(particleSystem) > 0

StaticOf(ps) ==
    [i \in 1..Len(ps) |->
        <<ps[i].type, ps[i].isDust, ps[i].baseScale, ps[i].posTree,
          ps[i].posScatter>>]

\* C8: only gesture processing writes mode and focus target, and a tick
\* leaves the particles of the registry and their fixed data as they are.
C8_TickKeepsModeAndRegistry ==
    [][ /\ (mode' # mode \/ focusTarget' # focusTarget) => SampleStep
        /\ (tickSaw' # tickSaw \/ rotation' # rotation)
              => StaticOf(particleSystem') = StaticOf(particleSystem) ]_vars

C8_Witness ==
    /\ tickSaw.mode = "FOCUS"
    /\ tickSaw.focusTarget # NULL
    /\ mode = "FOCUS"
    /\ focusTarget = tickSaw.focusTarget
    /\ ~hand.detected
    /\ LastGesture = "NONE"

\* C9: no tick reads a half-applied transition: it never sees FOCUS without
\* a target while photos exist, nor a target in TREE or SCATTER; of the
\* frames of TreeScene's photo planes.
C9_TickSeesWholeTransition ==
    /\ (frameSaw.mode = "ZOOM" /\ frameSaw.photos > 0) => frameSaw.focused # NULL
    /\ frameSaw.mode \in {"TREE", "SCATTER"} => frameSaw.focused = NULL

\* the ticks of the App read no half-applied transition: processGestures
\* runs to its end before animate runs.
AppTickSeesWholeTransition ==
    /\ (tickSaw.mode = "FOCUS" /\ PhotoIndices(particleSystem) # {})
          => tickSaw.focusTarget \in PhotoIndices(particleSystem)
    /\ tickSaw.mode \in {"TREE", "SCATTER"} => tickSaw.focusTarget = NULL

\* whatever props a frame of TreeScene reads, a photo plane goes before the
\* camera only in ZOOM
SceneFrameZoomsOnlyInZoom ==
    \A k \in 1..Len(frameSaw.targets) :
        frameSaw.targets[k] = "camera" => frameSaw.mode = "ZOOM"

\* C10: the two targets of a particle that exists are never computed anew:
\* every photo of TreeScene keeps its initialPos and scatterPos.
C10_TargetsAssignedOnce ==
    [][ \A k \in 1..Len(photos) :
            /\ k <= Len(photos')
            /\ photos'[k].initialPos = photos[k].initialPos
            /\ photos'[k].scatterPos = photos[k].scatterPos ]_vars

\* C11: once init is through, the registry changes its particles only by one
\* PHOTO particle pushed at its end, every particle before it staying as it
\* is; and every entry into FOCUS from another mode selects among all the
\* PHOTO particles the registry holds then, the added ones included.
C11_PhotoAddedAndEligible ==
    [][ /\ (initPc = "done" /\ StaticOf(particleSystem') # StaticOf(particleSystem))
            => /\ Len(particleSystem') = Len(particleSystem) + 1
               /\ particleSystem'[Len(particleSystem')].type = "PHOTO"
               /\ SubSeq(particleSystem', 1, Len(particleSystem)) = particleSystem
        /\ (mode # "FOCUS" /\ mode' = "FOCUS" /\ PhotoIndices(particleSystem) # {})
            => focusTarget' \in PhotoIndices(particleSystem) ]_vars

\* PINCH, FIST, and later a PINCH from TREE that selects an uploaded photo
C11_Witness ==
    /\ modesSeen = <<"FOCUS", "TREE">>
    /\ LastGesture = "PINCH"
    /\ before.mode = "TREE"
    /\ before.focusTarget = NULL
    /\ mode = "FOCUS"
    /\ focusTarget = Len(particleSystem)
    /\ Cardinality(PhotoIndices(particleSystem)) >= 2

\* floor(i / n * ParticleCount) in exact arithmetic
ExactIndex(i, n) == (i * ParticleCount) \div n

\* the photo records processPhotos returns when photo i of n stands at index(i, n)
PhotosPlacedAt(n, index(_, _)) ==
    \A k \in 1..n :
        /\ geoResult[k].id = k
        /\ geoResult[k].initialPos =
               PushOut(CalculateTreePosition(index(k - 1, n), ParticleCount))

\* C12 as stated: every photo i of n stands at treeIndex
\* floor(i / n * ornamentCount), which lies in 0..ornamentCount-1.
C12_ExactFloor ==
    geoCall.op = "processPhotos"
    => /\ Len(geoResult) = geoCall.n
       /\ PhotosPlacedAt(geoCall.n, ExactIndex)
       /\ \A i \in 0..(geoCall.n - 1) :
              ExactIndex(i, geoCall.n) \in 0..(ParticleCount - 1)

\* the index of photo i of n: the exact floor, or the index below it when
\* i * ParticleCount / n is whole and the double product falls short of it
NearIndex(i, n) ==
    IF /\ (i * ParticleCount) % n = 0
       /\ ExactIndex(i, n) > 0
       /\ geoResult[i + 1].initialPos =
              PushOut(CalculateTreePosition(ExactIndex(i, n) - 1, ParticleCount))
    THEN ExactIndex(i, n) - 1
    ELSE ExactIndex(i, n)

\* C12 as amended: processPhotos returns one record per url, none for no
\* url; photo i of n stands at the floor of the double (i / n) * 450, which
\* lies in 0..449 and is floor(i * 450 / n) or, only where i * 450 / n is
\* whole, the index below it; it is floor(i * 450 / n) for every n below 45,
\* so 0, 150, 300 for three photos, and 229 for photo 23 of 45.
C12_DoubleFloor ==
    geoCall.op = "processPhotos"
    => /\ Len(geoResult) = geoCall.n
       /\ PhotosPlacedAt(geoCall.n, NearIndex)
       /\ \A i \in 0..(geoCall.n - 1) :
              NearIndex(i, geoCall.n) \in 0..(ParticleCount - 1)
       /\ geoCall.n < 45 => PhotosPlacedAt(geoCall.n, ExactIndex)
       /\ geoCall.n = 3 =>
              /\ ExactIndex(0, 3) = 0 /\ ExactIndex(1, 3) = 150
              /\ ExactIndex(2, 3) = 300
       /\ geoCall.n = 45 =>
              geoResult[24].initialPos =
                  PushOut(CalculateTreePosition(229, ParticleCount))

\* 45 urls: photo 23 stands at 229, below floor(23 * 450 / 45) = 230
C12_Witness ==
    /\ geoCall.op = "processPhotos"
    /\ geoCall.n = 45
    /\ Len(geoResult) = 45
    /\ ExactIndex(23, 45) = 230
    /\ geoResult[24].initialPos = PushOut(CalculateTreePosition(229, ParticleCount))

\* C13: generateParticles(count) returns exactly count particles with
\* pairwise distinct ids, each of a scale above zero; none for count 0.
C13_GenerateParticles ==
    geoCall.op = "generateParticles"
    => /\ Len(geoResult) = geoCall.n
       /\ \A j, k \in 1..Len(geoResult) :
              j # k => geoResult[j].id # geoResult[k].id
       /\ \A k \in 1..Len(geoResult) : geoResult[k].scale > 0
       /\ geoCall.n = 0 => geoResult = << >>

\* two particles, the second a candy of the least scale
C13_Witness ==
    /\ geoCall.op = "generateParticles"
    /\ geoCall.n = 2
    /\ Len(geoResult) = 2
    /\ geoResult[1].id # geoResult[2].id
    /\ geoResult[2].type = "CANDY"
    /\ geoResult[2].scale = 100

\* the positions of one call in the order of their indices: y strictly
\* increasing, radius strictly decreasing
MonotoneByIndex ==
    \A j, k \in 1..Len(geoResult) :
        j < k => /\ geoResult[j].y < geoResult[k].y
                 /\ geoResult[j].r > geoResult[k].r

\* C14 as stated, for both generators of tree positions
C14_MonotoneByIndex ==
    geoCall.op \in {"calculateTreePosition", "calculatePositions"}
    => /\ MonotoneByIndex
       /\ \A k \in 1..Len(geoResult) : geoResult[k].r > 0

\* C14: calculateTreePosition gives y strictly increasing and radius strictly
\* decreasing with the index, the radius above zero for every index below
\* total.  Particle.calculatePositions places by a random height instead of
\* the index: its radius is above zero, its cone radius is never below the
\* floor, and of two particles the higher has the cone radius that is not
\* the larger.
C14_TreePositions ==
    /\ geoCall.op = "calculateTreePosition"
       => /\ MonotoneByIndex
          /\ \A k \in 1..Len(geoResult) : geoResult[k].r > 0
    /\ geoCall.op = "calculatePositions"
       => /\ \A k \in 1..Len(geoResult) :
                 /\ geoResult[k].rMax >= RadiusFloor
                 /\ geoResult[k].r > 0
          /\ \A j, k \in 1..Len(geoResult) :
                 geoResult[j].y < geoResult[k].y
                 => geoResult[j].rMax >= geoResult[k].rMax

\* ten positions, the last at radius 0.5
C14_Witness ==
    /\ geoCall.op = "calculateTreePosition"
    /\ geoCall.n = 10
    /\ Len(geoResult) = 10
    /\ geoResult[10].r = 500
    /\ geoResult[10].y = 5600

\* two App particles at different heights under the floor of the cone radius
C14_FloorWitness ==
    /\ geoCall.op = "calculatePositions"
    /\ Len(geoResult) = 2
    /\ geoResult[1].y < geoResult[2].y
    /\ geoResult[1].rMax = RadiusFloor
    /\ geoResult[2].rMax = RadiusFloor

\* C15: with a fixed dt > 0 and a target that stays, a tick brings a particle
\* that is not at its target strictly nearer to it, and never onto it.
C15_TickApproaches ==
    (geoCall.op = "lerp" /\ geoCall.ticks > 0 /\ geoCall.from # geoCall.target)
    => /\ Dist(geoResult, geoCall.target) < Dist(geoCall.from, geoCall.target)
       /\ geoResult # geoCall.target

\* while lerpSpeed * dt is below one the tick does approach and not arrive
LerpApproachesBelowOne ==
    (/\ geoCall.op = "lerp" /\ geoCall.ticks > 0
     /\ geoCall.from # geoCall.target
     /\ geoCall.lerpSpeed * geoCall.dt < 1000)
    => /\ Dist(geoResult, geoCall.target) < Dist(geoCall.from, geoCall.target)
       /\ geoResult # geoCall.target

\* a tick that lands on the target, and a tick that ends farther from it
LerpArrives ==
    /\ geoCall.op = "lerp" /\ geoCall.ticks > 0
    /\ geoCall.from # geoCall.target
    /\ geoResult = geoCall.target

LerpOvershoots ==
    /\ geoCall.op = "lerp" /\ geoCall.ticks > 0
    /\ Dist(geoResult, geoCall.target) > Dist(geoCall.from, geoCall.target)

\* the particles the last tick has updated
Ticked == { i \in 1..Len(particleSystem) : particleSystem[i].lerpSpeed # 0 }

\* C16: a tick gives a particle its tree target in TREE, its scatter target
\* in SCATTER, and in FOCUS the place before the camera if and only if it is
\* the focus target, its scatter target otherwise; at most one particle of a
\* tick has the camera place and the higher rate.
C16_PositionTargetByMode ==
    /\ \A i \in Ticked :
          LET p == particleSystem[i]
          IN  /\ tickSaw.mode = "TREE" => p.target = p.posTree
              /\ tickSaw.mode = "SCATTER" => p.target = p.posScatter
              /\ tickSaw.mode = "FOCUS"
                 => /\ p.target = <<"camera", 0>> <=> i = tickSaw.focusTarget
                    /\ p.target # <<"camera", 0>> => p.target = p.posScatter
              /\ p.lerpSpeed = 50 <=> p.target = <<"camera", 0>>
              /\ p.lerpSpeed # 50 => p.lerpSpeed = 20
    /\ Cardinality({ i \in Ticked : particleSystem[i].target = <<"camera", 0>> })
          <= 1

\* a tick in FOCUS over two photos: one before the camera at the higher
\* rate, the other at its scatter target
C16_Witness ==
    /\ tickSaw.mode = "FOCUS"
    /\ \E i, j \in Ticked :
          /\ i # j
          /\ particleSystem[i].type = "PHOTO"
          /\ particleSystem[j].type = "PHOTO"
          /\ particleSystem[i].target = <<"camera", 0>>
          /\ particleSystem[i].lerpSpeed = 50
          /\ particleSystem[j].target = particleSystem[j].posScatter
          /\ particleSystem[j].lerpSpeed = 20

\* the same of the photo planes of TreeScene, whose rate is one for all
ScenePlaneTargetByMode ==
    /\ \A k \in 1..Len(frameSaw.targets) :
          /\ frameSaw.mode = "TREE" => frameSaw.targets[k] = "initialPos"
          /\ frameSaw.mode = "SCATTER" => frameSaw.targets[k] = "scatterPos"
          /\ frameSaw.targets[k] = "camera"
             <=> (frameSaw.mode = "ZOOM" /\ frameSaw.focused = k)
    /\ Cardinality({ k \in 1..Len(frameSaw.targets) :
                        frameSaw.targets[k] = "camera" }) <= 1

\* C17 as stated: a particle that is not the focus target spins in FOCUS as
\* it does in SCATTER.
C17_SpinsInFocus ==
    \A i \in Ticked :
        (tickSaw.mode = "FOCUS" /\ i # tickSaw.focusTarget)
        => particleSystem[i].rot = "spin"

\* C17: a tick adds spinSpeed * dt to a particle's rotation on every axis in
\* SCATTER and only there; in TREE the x and z rotations decay toward zero;
\* in FOCUS the rotation of no particle is advanced, and the focus target,
\* and it alone, is turned to the camera.
C17_RotationByMode ==
    \A i \in Ticked :
        LET p == particleSystem[i]
        IN  /\ p.rot = "spin" <=> tickSaw.mode = "SCATTER"
            /\ p.rot = "decay" <=> tickSaw.mode = "TREE"
            /\ tickSaw.mode = "FOCUS" => p.rot = "none"
            /\ p.lookAt <=> (tickSaw.mode = "FOCUS" /\ i = tickSaw.focusTarget)

\* a tick in FOCUS: the focus target faces the camera, an ornament beside it
\* is not turned at all
C17_Witness ==
    /\ tickSaw.mode = "FOCUS"
    /\ \E i, j \in Ticked :
          /\ i = tickSaw.focusTarget
          /\ particleSystem[i].lookAt
          /\ j # i
          /\ particleSystem[j].type = "BOX"
          /\ particleSystem[j].rot = "none"
          /\ ~particleSystem[j].lookAt

ScatterTick ==
    geoCall.op = "animate" /\ geoCall.mode = "SCATTER" /\ geoCall.ticks > 0

\* C19 as stated: in SCATTER, once the hand is lost the orientation has
\* after every tick the value it had at the loss.
C19_FrozenOnceLost ==
    (ScatterTick /\ ~geoCall.hand.detected /\ geoCall.lostAt # << >>)
    => geoResult = geoCall.lostAt[1]

\* C19: in SCATTER a tick steers the orientation toward the pointer only
\* while a hand is detected.  With the hand lost the pointer steers nothing:
\* rotation.x keeps its value and rotation.y goes on by 0.1 * dt in every
\* tick, wherever the pointer was.
C19_ScatterRotation ==
    ScatterTick
    => IF geoCall.saw.detected
       THEN /\ TargetRotY(geoCall.saw) >= geoCall.from.y
               => geoResult.y >= geoCall.from.y
            /\ TargetRotY(geoCall.saw) <= geoCall.from.y
               => geoResult.y <= geoCall.from.y
            /\ TargetRotX(geoCall.saw) >= geoCall.from.x
               => geoResult.x >= geoCall.from.x
            /\ TargetRotX(geoCall.saw) <= geoCall.from.x
               => geoResult.x <= geoCall.from.x
       ELSE /\ geoResult.x = geoCall.from.x
            /\ geoResult.y = geoCall.from.y + geoCall.dt

\* a hand turned the scene, was lost, and a tick after the loss moved
\* rotation.y on while rotation.x stayed
C19_Witness ==
    /\ ScatterTick
    /\ ~geoCall.saw.detected
    /\ geoCall.lostAt # << >>
    /\ geoCall.lostAt[1].x # 0
    /\ geoResult.x = geoCall.lostAt[1].x
    /\ geoResult.y > geoCall.lostAt[1].y

\* C20: the focus target, when set, is a particle of the registry whose type
\* is PHOTO.
C20_FocusTargetIsPhoto ==
    focusTarget # NULL
    => /\ focusTarget \in 1..Len(particleSystem)
       /\ particleSystem[focusTarget].type = "PHOTO"
       /\ ~particleSystem[focusTarget].isDust

\* the focus target is the photo uploaded after the default one, in a
\* registry that holds an ornament and a dust particle as well
C20_Witness ==
    /\ mode = "FOCUS"
    /\ focusTarget = Len(particleSystem)
    /\ Cardinality(PhotoIndices(particleSystem)) = 2
    /\ \E i \in 1..Len(particleSystem) : particleSystem[i].type = "BOX"
    /\ \E i \in 1..Len(particleSystem) : particleSystem[i].isDust

\* the same of TreeScene: the focused id, rendered or queued, is the id of a
\* photo of the list
SceneFocusIsPhoto ==
    /\ focusedPhotoId # NULL
       => \E k \in 1..Len(photos) : photos[k].id = focusedPhotoId
    /\ \A q \in 1..Len(focusQueued) :
          focusQueued[q] # NULL
          => \E k \in 1..Len(photos) : photos[k].id = focusQueued[q]

\* C21: once the cleanup has run neither predictWebcam nor animate is
\* entered again.
C21_LoopsStopAfterCleanup ==
    [][ cleaned => ~(LoadedData \/ PredictWebcam \/ Animate \/ InitMediaPipe) ]_vars

\* C22: the default photo is in the registry before any sample can be
\* processed, so whenever the sample loop is armed or has run the registry
\* holds a PHOTO particle, and mode = FOCUS holds if and only if a focus
\* target is set.
C22_DefaultPhotoBeforeSamples ==
    /\ predictLoop # "off" => PhotoIndices(particleSystem) # {}
    /\ initPc # "start" => PhotoIndices(particleSystem) # {}
    /\ mode = "FOCUS" <=> focusTarget # NULL

\* the first PINCH, processed over the default photo alone, has set the
\* mode FOCUS and that photo as the focus target
C22_Witness ==
    /\ before.mode = "TREE"
    /\ mode = "FOCUS"
    /\ LastGesture = "PINCH"
    /\ Cardinality(PhotoIndices(particleSystem)) = 1
    /\ focusTarget \in PhotoIndices(particleSystem)

\* C23: once the cleanup has run addPhotoRef.current is null, so no upload
\* reaches addPhotoToScene.
C23_BridgeNullAfterCleanup == cleaned => ~addPhotoRef

\* a texture that finishes loading after the cleanup is added to the scene
\* the cleanup disposed
UploadAfterCleanup == [][ cleaned => ~UploadPhoto ]_vars

\* when init() has passed its await before the cleanup runs, the reference
\* stays null
BridgeNullWhenInitWasDone ==
    [][ (cleaned /\ ~addPhotoRef /\ initPc # "awaitMediaPipe")
        => ~addPhotoRef' ]_vars

====
